---- MODULE Spec2Model ----
(***************************************************************************)
(* kube-plex (main.go): the remote-job lifecycle of one invocation.        *)
(*                                                                         *)
(* Two tasks: the main flow (main) and the watcher goroutine that runs     *)
(* waitForPodCompletion.  The cluster (pod phase, outcome of each API      *)
(* call) and the operator's stop signal are the environment.               *)
(***************************************************************************)
EXTENDS Naturals, Integers, Sequences, FiniteSets

\* ------------------------------------------------------------------ bounds
\* Most get-status calls the watcher may issue in one run.
MaxPolls == 4
\* Most lines the pod's log stream may carry.
MaxLogLines == 2

\* ------------------------------------------------------------- vocabulary
\* corev1.PodPhase values switched on by waitForPodCompletion.
Phases == {"Pending", "Running", "Unknown", "Failed", "Succeeded"}
Terminal == {"Failed", "Succeeded"}

\* Lines a log stream is made of.
LogLines == {"l1", "l2"}

\* Every content a pod's log stream may have: sequences of at most
\* MaxLogLines lines.
LogContents == UNION {[1..n -> LogLines] : n \in 0..MaxLogLines}

VARIABLES
    mainPc,      \* position of main: rewrite, defaults, client, generate,
                 \* create, setup, waitfn, select, stream, read, delete,
                 \* return, returned, exited
    exitCode,    \* -1 while the process runs, then its exit status
    calls,       \* cluster calls issued so far, in order
    phase,       \* the pod's phase in the cluster ("None": no pod)
    stopCh,      \* TRUE once the channel of SetupSignalHandler is closed
    ctxDone,     \* TRUE once ctx is cancelled
    wPc,         \* position of the watcher goroutine: idle, select, get,
                 \* send, done
    wErr,        \* value waitForPodCompletion returned
    observed,    \* result of each get-status call, in order
    took,        \* case the select of main took: none, watcher, stop
    recvErr,     \* err received from the watcher's channel
    logsReader,  \* content carried by the opened log stream
    logs,        \* what io.ReadAll returned and main printed
    logErr,      \* none, stream (open failed), read (ReadAll failed)
    stopPhase,   \* the pod's phase when the select took the stop case
    deleted,     \* TRUE once the delete call has returned without error
    stopGets,    \* get-status calls issued when the select took the stop case
    osArgs,      \* os.Args as the process was started
    args,        \* the argument vector, rewritten in place by rewriteArgs
    env,         \* os.Environ()
    uid,         \* PLEX_UID
    gid,         \* PLEX_GID
    envLimitCPU, \* LIMIT_CPU as found in the environment
    limitCPU,    \* the package variable limitCPU
    pod,         \* the pod built by generatePod (NoPod before)
    panicAt      \* function whose panic ended the process, or "none"

vars == <<mainPc, exitCode, calls, phase, stopCh, ctxDone, wPc, wErr,
          observed, took, recvErr, logsReader, logs, logErr, stopPhase,
          deleted, stopGets, osArgs, args, env, uid, gid, envLimitCPU,
          limitCPU, pod, panicAt>>

\* The invocation and its configuration: untouched once the pod is built.
cfgVars == <<osArgs, args, env, uid, gid, envLimitCPU, limitCPU, pod,
             panicAt>>

\* Number of calls of one kind issued so far.
Count(op) == Cardinality({i \in DOMAIN calls : calls[i] = op})

\* The process is still running.
Alive == mainPc # "exited"

\* Value standing for "no log content" (no stream opened, nothing read).
NoLogs == <<"-">>

\* ------------------------------------------- invocation and configuration
\* Strings are sequences of tokens; a flag is a one-token string.

\* Most elements of the argument vector.
MaxArgs == 3
\* Most entries of the environment.
MaxEnv == 2

\* case "-progressurl", "-manifest_name", "-segment_list"
UrlFlags == {<<"-progressurl">>, <<"-manifest_name">>, <<"-segment_list">>}
\* case "-loglevel", "-loglevel_plex"
LogFlags == {<<"-loglevel">>, <<"-loglevel_plex">>}

\* "http://127.0.0.1:32400", as host and port tokens.
Loopback == <<"http://127.0.0.1", ":32400">>
\* PMS_INTERNAL_ADDRESS.
pmsInternalAddress == <<"http://pms", ":32400">>
Debug == <<"debug">>
constDefaultLimitCPU == <<"1", "0", "0", "m">>

\* Values an argument may have besides a flag: a plain one, a URL on the
\* loopback authority, one naming it twice, one that only starts like it.
ArgValues ==
    {<<"/x">>, Loopback \o <<"/x">>, Loopback \o Loopback,
     <<"http://127.0.0.1", ":80">>}
ArgStrings == UrlFlags \cup LogFlags \cup ArgValues
ArgVectors == UNION {[1..n -> ArgStrings] : n \in 1..MaxArgs}
ShortArgVectors == {v \in ArgVectors : Len(v) = 1}

\* PLEX_UID / PLEX_GID values: "10", "-1", "x", "".
IdStrings == {<<"1", "0">>, <<"-", "1">>, <<"x">>, <<>>}

\* Environment entries: "K=v", "K" (no '='), "K=v=w".
EnvEntries == {<<"K", "=", "v">>, <<"K">>, <<"K", "=", "v", "=", "w">>}
EnvVectors == UNION {[1..n -> EnvEntries] : n \in 0..MaxEnv}

\* LIMIT_CPU values: unset, "2", "50m", "x".
CpuStrings == {<<>>, <<"2">>, <<"5", "0", "m">>, <<"x">>}

\* A valid invocation, the one the lifecycle is explored with.
BaseArgs == <<<<"/x">>>>
BaseEnv == <<<<"K", "=", "v">>>>
BaseId == <<"1", "0">>

NoPod == [Built |-> FALSE]

\* strings.Index: place of the first occurrence of old in s, 0 if none.
IndexOf(s, old) ==
    LET hits == {k \in 1..(Len(s) + 1 - Len(old)) :
                    SubSeq(s, k, k + Len(old) - 1) = old}
    IN IF hits = {} THEN 0
       ELSE CHOOSE k \in hits : \A h \in hits : k <= h

\* strings.Replace(s, old, new, n): the first n occurrences (all if n < 0).
RECURSIVE StringsReplace(_, _, _, _)
StringsReplace(s, old, new, n) ==
    IF n = 0 \/ IndexOf(s, old) = 0
    THEN s
    ELSE LET k == IndexOf(s, old)
         IN SubSeq(s, 1, k - 1) \o new
              \o StringsReplace(SubSeq(s, k + Len(old), Len(s)), old, new,
                                n - 1)

RewriteUrlAll(v) == StringsReplace(v, Loopback, pmsInternalAddress, -1)

\* in[i+1] = strings.Replace(in[i+1], "http://127.0.0.1:32400",
\*                           pmsInternalAddress, 1)
RewriteUrl(v) == StringsReplace(v, Loopback, pmsInternalAddress, 1)

RewriteLogLevelKeeps(v) == v

\* in[i+1] = "debug"
RewriteLogLevel(v) == Debug

RewriteAtEndSkips(in) == [panic |-> FALSE, out |-> in]

\* in[i+1] with i the last index: index out of range, the runtime panics.
RewriteAtEnd(in) == [panic |-> TRUE, out |-> in]

\* The loop of rewriteArgs from index i on: v is in[i] as it is now, after
\* the earlier iterations wrote to the slice.
RECURSIVE RewriteFrom(_, _)
RewriteFrom(in, i) ==
    IF i > Len(in)
    THEN [panic |-> FALSE, out |-> in]
    ELSE IF in[i] \in UrlFlags
    THEN IF i = Len(in)
         THEN RewriteAtEnd(in)
         ELSE RewriteFrom([in EXCEPT ![i + 1] = RewriteUrl(in[i + 1])], i + 1)
    ELSE IF in[i] \in LogFlags
    THEN IF i = Len(in)
         THEN RewriteAtEnd(in)
         ELSE RewriteFrom([in EXCEPT ![i + 1] = RewriteLogLevel(in[i + 1])],
                          i + 1)
    ELSE RewriteFrom(in, i + 1)

rewriteArgs(in) == RewriteFrom(in, 1)

\* rewriteEnv: no changes.
rewriteEnv(in) == in

\* Decimal digits and the number a string of digits denotes.
DigitChars == <<"0", "1", "2", "3", "4", "5", "6", "7", "8", "9">>
IsDigits(s) ==
    /\ s # <<>>
    /\ \A i \in DOMAIN s : \E d \in DOMAIN DigitChars : DigitChars[d] = s[i]
DigitVal(c) == (CHOOSE d \in DOMAIN DigitChars : DigitChars[d] = c) - 1
RECURSIVE DecVal(_)
DecVal(s) ==
    IF s = <<>> THEN 0
    ELSE DecVal(SubSeq(s, 1, Len(s) - 1)) * 10 + DigitVal(s[Len(s)])

\* strconv.ParseInt(s, 10, 64): an optional sign, then digits (the strings
\* explored are too short to leave the int64 range).
ParseInt(s) ==
    LET signed == s # <<>> /\ s[1] \in {"+", "-"}
        body == IF signed THEN Tail(s) ELSE s
    IN IF ~IsDigits(body)
       THEN [err |-> TRUE, n |-> 0]
       ELSE [err |-> FALSE,
             n |-> IF signed /\ s[1] = "-" THEN 0 - DecVal(body)
                   ELSE DecVal(body)]

\* resource.MustParse for the quantities explored: digits, optionally
\* followed by the suffix m; the value in millicores.
ParseQuantity(s) ==
    LET milli == s # <<>> /\ s[Len(s)] = "m"
        body == IF milli THEN SubSeq(s, 1, Len(s) - 1) ELSE s
    IN IF ~IsDigits(body)
       THEN [err |-> TRUE, milli |-> 0]
       ELSE [err |-> FALSE,
             milli |-> IF milli THEN DecVal(body) ELSE DecVal(body) * 1000]

\* strings.SplitN(v, "=", 2)
SplitN2(v) ==
    LET k == IndexOf(v, <<"=">>)
    IN IF k = 0 THEN <<v>>
       ELSE <<SubSeq(v, 1, k - 1), SubSeq(v, k + 1, Len(v))>>

\* toCoreV1EnvVar: splitvar[1] of an entry without '=' is out of range.
toCoreV1EnvVar(in) ==
    IF \E i \in DOMAIN in : Len(SplitN2(in[i])) < 2
    THEN [panic |-> TRUE, out |-> <<>>]
    ELSE [panic |-> FALSE,
          out |-> [i \in DOMAIN in |->
                     [Name |-> SplitN2(in[i])[1],
                      Value |-> SplitN2(in[i])[2]]]]

\* generatePod: the function that panics, if any ("none" otherwise).  The
\* environment is translated first, then the struct literal evaluates
\* strToi64(uid), strToi64(gid) and resource.MustParse(limitCPU).
generatePodPanic(u, g, e, cpu) ==
    IF toCoreV1EnvVar(e).panic THEN "toCoreV1EnvVar"
    ELSE IF ParseInt(u).err \/ ParseInt(g).err THEN "strToi64"
    ELSE IF ParseQuantity(cpu).err THEN "MustParse"
    ELSE "none"

\* generatePod: the pod it returns.
generatePod(u, g, e, a, cpu) ==
    [Built         |-> TRUE,
     GenerateName  |-> "pms-elastic-transcoder-",
     RestartPolicy |-> "Never",
     RunAsUser     |-> ParseInt(u).n,
     RunAsGroup    |-> ParseInt(g).n,
     Command       |-> a,
     Env           |-> toCoreV1EnvVar(e).out,
     LimitCPU      |-> ParseQuantity(cpu).milli]

\* The state in which main issues the create call for BaseArgs, BaseEnv,
\* BaseId and no LIMIT_CPU (a state StartSpec reaches).
Init ==
    /\ mainPc = "create"
    /\ exitCode = -1
    /\ calls = <<>>
    /\ phase = "None"
    /\ stopCh = FALSE
    /\ ctxDone = FALSE
    /\ wPc = "idle"
    /\ wErr = "none"
    /\ observed = <<>>
    /\ took = "none"
    /\ recvErr = "none"
    /\ logsReader = NoLogs
    /\ logs = NoLogs
    /\ logErr = "none"
    /\ stopPhase = "None"
    /\ deleted = FALSE
    /\ stopGets = 0
    /\ osArgs = BaseArgs
    /\ args = rewriteArgs(BaseArgs).out
    /\ env = BaseEnv
    /\ uid = BaseId
    /\ gid = BaseId
    /\ envLimitCPU = <<>>
    /\ limitCPU = constDefaultLimitCPU
    /\ pod = generatePod(BaseId, BaseId, BaseEnv, rewriteArgs(BaseArgs).out,
                         constDefaultLimitCPU)
    /\ panicAt = "none"

\* --------------------------------------------------------------- main flow

\* log.Fatalf: the process exits with status 1 at once; deferred calls do
\* not run.
Fatal ==
    /\ mainPc' = "exited"
    /\ exitCode' = 1

\* Pods(namespace).Create succeeds: the pod exists, Pending.
MainCreateOk ==
    /\ mainPc = "create"
    /\ calls' = Append(calls, "create")
    /\ phase' = "Pending"
    /\ mainPc' = "setup"
    /\ UNCHANGED <<exitCode, stopCh, ctxDone, wPc, wErr, observed, took,
                   recvErr, logsReader, logs, logErr,
                   stopPhase, deleted, stopGets, cfgVars>>

MainCreateFailSkipsFatal ==
    /\ mainPc = "create"
    /\ calls' = Append(calls, "create")
    /\ mainPc' = "setup"
    /\ UNCHANGED <<exitCode, phase, stopCh, ctxDone, wPc, wErr, observed,
                   took, recvErr, logsReader, logs, logErr,
                   stopPhase, deleted, stopGets, cfgVars>>

\* Pods(namespace).Create returns an error: log.Fatalf.
MainCreateFail ==
    /\ mainPc = "create"
    /\ calls' = Append(calls, "create")
    /\ Fatal
    /\ UNCHANGED <<phase, stopCh, ctxDone, wPc, wErr, observed, took,
                   recvErr, logsReader, logs, logErr,
                   stopPhase, deleted, stopGets, cfgVars>>

\* stopCh := signals.SetupSignalHandler(); waitFn is defined.
MainSetup ==
    /\ mainPc = "setup"
    /\ mainPc' = "waitfn"
    /\ UNCHANGED <<exitCode, calls, phase, stopCh, ctxDone, wPc, wErr,
                   observed, took, recvErr, logsReader, logs, logErr,
                   stopPhase, deleted, stopGets, cfgVars>>

\* Entering the select evaluates waitFn(): the watcher goroutine starts.
MainEnterSelect ==
    /\ mainPc = "waitfn"
    /\ mainPc' = "select"
    /\ wPc' = "select"
    /\ UNCHANGED <<exitCode, calls, phase, stopCh, ctxDone, wErr, observed,
                   took, recvErr, logsReader, logs, logErr,
                   stopPhase, deleted, stopGets, cfgVars>>

MainRecvWatcherAlwaysDumps ==
    /\ mainPc = "select"
    /\ wPc = "send"
    /\ wPc' = "done"
    /\ took' = "watcher"
    /\ recvErr' = wErr
    /\ mainPc' = "stream"
    /\ UNCHANGED <<exitCode, calls, phase, stopCh, ctxDone, wErr, observed,
                   logsReader, logs, logErr,
                   stopPhase, deleted, stopGets, cfgVars>>

\* case err := <-waitFn(): the watcher's send and this receive meet.
\* A non-nil err leads to the log dump, a nil err to the cleanup.
MainRecvWatcher ==
    /\ mainPc = "select"
    /\ wPc = "send"
    /\ wPc' = "done"
    /\ took' = "watcher"
    /\ recvErr' = wErr
    /\ mainPc' = IF wErr # "nil" THEN "stream" ELSE "delete"
    /\ UNCHANGED <<exitCode, calls, phase, stopCh, ctxDone, wErr, observed,
                   logsReader, logs, logErr,
                   stopPhase, deleted, stopGets, cfgVars>>

MainRecvStopSkipsCleanup ==
    /\ mainPc = "select"
    /\ stopCh
    /\ took' = "stop"
    /\ stopPhase' = phase
    /\ stopGets' = Count("get")
    /\ mainPc' = "return"
    /\ UNCHANGED <<exitCode, calls, phase, stopCh, ctxDone, wPc, wErr,
                   observed, recvErr, logsReader, logs, logErr,
                   deleted, cfgVars>>

MainRecvStopDumps ==
    /\ mainPc = "select"
    /\ stopCh
    /\ took' = "stop"
    /\ stopPhase' = phase
    /\ stopGets' = Count("get")
    /\ mainPc' = "stream"
    /\ UNCHANGED <<exitCode, calls, phase, stopCh, ctxDone, wPc, wErr,
                   observed, recvErr, logsReader, logs, logErr,
                   deleted, cfgVars>>

MainRecvStopCancels ==
    /\ mainPc = "select"
    /\ stopCh
    /\ took' = "stop"
    /\ stopPhase' = phase
    /\ stopGets' = Count("get")
    /\ ctxDone' = TRUE
    /\ mainPc' = "delete"
    /\ UNCHANGED <<exitCode, calls, phase, stopCh, wPc, wErr,
                   observed, recvErr, logsReader, logs, logErr,
                   deleted, cfgVars>>

\* case <-stopCh: "exit requested."; on to the cleanup.
MainRecvStop ==
    /\ mainPc = "select"
    /\ stopCh
    /\ took' = "stop"
    /\ stopPhase' = phase
    /\ stopGets' = Count("get")
    /\ mainPc' = "delete"
    /\ UNCHANGED <<exitCode, calls, phase, stopCh, ctxDone, wPc, wErr,
                   observed, recvErr, logsReader, logs, logErr,
                   deleted, cfgVars>>

MainStreamOkAfterCleanup ==
    /\ mainPc = "stream"
    /\ calls' = calls \o <<"delete", "logs">>
    /\ \E c \in LogContents : logsReader' = c
    /\ mainPc' = "read"
    /\ UNCHANGED <<exitCode, phase, stopCh, ctxDone, wPc, wErr, observed,
                   took, recvErr, logs, logErr,
                   stopPhase, deleted, stopGets, cfgVars>>

\* GetLogs(...).Stream(ctx) succeeds: the reader carries the pod's log.
MainStreamOk ==
    /\ mainPc = "stream"
    /\ calls' = Append(calls, "logs")
    /\ \E c \in LogContents : logsReader' = c
    /\ mainPc' = "read"
    /\ UNCHANGED <<exitCode, phase, stopCh, ctxDone, wPc, wErr, observed,
                   took, recvErr, logs, logErr,
                   stopPhase, deleted, stopGets, cfgVars>>

MainStreamFailSwallowed ==
    /\ mainPc = "stream"
    /\ calls' = Append(calls, "logs")
    /\ logErr' = "stream"
    /\ mainPc' = "delete"
    /\ UNCHANGED <<exitCode, phase, stopCh, ctxDone, wPc, wErr, observed,
                   took, recvErr, logsReader, logs,
                   stopPhase, deleted, stopGets, cfgVars>>

\* GetLogs(...).Stream(ctx) returns an error: log.Fatalf.
MainStreamFail ==
    /\ mainPc = "stream"
    /\ calls' = Append(calls, "logs")
    /\ logErr' = "stream"
    /\ Fatal
    /\ UNCHANGED <<phase, stopCh, ctxDone, wPc, wErr, observed, took,
                   recvErr, logsReader, logs,
                   stopPhase, deleted, stopGets, cfgVars>>

\* What io.ReadAll returns on success: everything the reader carries.
ReadAllTruncated(r) == IF Len(r) > 1 THEN SubSeq(r, 1, Len(r) - 1) ELSE r

ReadAll(r) == r

\* io.ReadAll succeeds; the logs are printed; on to the cleanup.
MainReadOk ==
    /\ mainPc = "read"
    /\ logs' = ReadAll(logsReader)
    /\ mainPc' = "delete"
    /\ UNCHANGED <<exitCode, calls, phase, stopCh, ctxDone, wPc, wErr,
                   observed, took, recvErr, logsReader, logErr,
                   stopPhase, deleted, stopGets, cfgVars>>

\* io.ReadAll returns an error: log.Fatalf.
MainReadFail ==
    /\ mainPc = "read"
    /\ logErr' = "read"
    /\ Fatal
    /\ UNCHANGED <<calls, phase, stopCh, ctxDone, wPc, wErr, observed, took,
                   recvErr, logsReader, logs,
                   stopPhase, deleted, stopGets, cfgVars>>

\* Pods(namespace).Delete succeeds; main falls off its end.
MainDeleteOk ==
    /\ mainPc = "delete"
    /\ calls' = Append(calls, "delete")
    /\ deleted' = TRUE
    /\ mainPc' = "return"
    /\ UNCHANGED <<exitCode, phase, stopCh, ctxDone, wPc, wErr, observed,
                   took, recvErr, logsReader, logs, logErr,
                   stopPhase, stopGets, cfgVars>>

MainDeleteFailSwallowed ==
    /\ mainPc = "delete"
    /\ calls' = Append(calls, "delete")
    /\ mainPc' = "return"
    /\ UNCHANGED <<exitCode, phase, stopCh, ctxDone, wPc, wErr, observed,
                   took, recvErr, logsReader, logs, logErr,
                   stopPhase, deleted, stopGets, cfgVars>>

\* Pods(namespace).Delete returns an error: log.Fatalf.
MainDeleteFail ==
    /\ mainPc = "delete"
    /\ calls' = Append(calls, "delete")
    /\ Fatal
    /\ UNCHANGED <<phase, stopCh, ctxDone, wPc, wErr, observed, took,
                   recvErr, logsReader, logs, logErr,
                   stopPhase, deleted, stopGets, cfgVars>>

\* main returns: the deferred logsReader.Close() and cancel() run.
MainReturn ==
    /\ mainPc = "return"
    /\ ctxDone' = TRUE
    /\ mainPc' = "returned"
    /\ UNCHANGED <<exitCode, calls, phase, stopCh, wPc, wErr, observed,
                   took, recvErr, logsReader, logs, logErr,
                   stopPhase, deleted, stopGets, cfgVars>>

\* After main has returned the runtime ends the process with status 0,
\* whatever the watcher goroutine is doing.
ProcessExit ==
    /\ mainPc = "returned"
    /\ mainPc' = "exited"
    /\ exitCode' = 0
    /\ UNCHANGED <<calls, phase, stopCh, ctxDone, wPc, wErr, observed, took,
                   recvErr, logsReader, logs, logErr,
                   stopPhase, deleted, stopGets, cfgVars>>


\* ------------------------------------------------ main flow before create

\* Everything the lifecycle after the create call works on.
runVars == <<phase, stopCh, ctxDone, wPc, wErr, observed, took, recvErr,
             logsReader, logs, logErr, stopPhase, deleted, stopGets>>

\* The process as it starts: any invocation of ArgVectors with the valid
\* configuration, or a one-element argument vector with any configuration.
InitStart ==
    /\ mainPc = "rewrite"
    /\ exitCode = -1
    /\ calls = <<>>
    /\ phase = "None"
    /\ stopCh = FALSE
    /\ ctxDone = FALSE
    /\ wPc = "idle"
    /\ wErr = "none"
    /\ observed = <<>>
    /\ took = "none"
    /\ recvErr = "none"
    /\ logsReader = NoLogs
    /\ logs = NoLogs
    /\ logErr = "none"
    /\ stopPhase = "None"
    /\ deleted = FALSE
    /\ stopGets = 0
    /\ pod = NoPod
    /\ panicAt = "none"
    /\ \/ /\ osArgs \in ArgVectors
          /\ env = BaseEnv
          /\ uid = BaseId
          /\ gid = BaseId
          /\ envLimitCPU = <<>>
       \/ /\ osArgs \in ShortArgVectors
          /\ env \in EnvVectors
          /\ uid \in IdStrings
          /\ gid \in IdStrings
          /\ envLimitCPU \in CpuStrings
    /\ args = osArgs
    /\ limitCPU = envLimitCPU

\* A runtime panic: the process exits with status 2 at once.
Panic(where) ==
    /\ mainPc' = "exited"
    /\ exitCode' = 2
    /\ panicAt' = where

\* rewriteEnv(env); rewriteArgs(args): the vector is rewritten in place.
MainRewrite ==
    /\ mainPc = "rewrite"
    /\ ~rewriteArgs(args).panic
    /\ args' = rewriteArgs(args).out
    /\ env' = rewriteEnv(env)
    /\ mainPc' = "defaults"
    /\ UNCHANGED <<exitCode, calls, runVars, osArgs, uid, gid, envLimitCPU,
                   limitCPU, pod, panicAt>>

\* rewriteArgs panics on in[i+1].
MainRewritePanic ==
    /\ mainPc = "rewrite"
    /\ rewriteArgs(args).panic
    /\ Panic("rewriteArgs")
    /\ UNCHANGED <<calls, runVars, osArgs, args, env, uid, gid, envLimitCPU,
                   limitCPU, pod>>

MainSetDefaultsNoop ==
    /\ mainPc = "defaults"
    /\ mainPc' = "client"
    /\ UNCHANGED <<exitCode, calls, runVars, cfgVars>>

\* setDefaults()
MainSetDefaults ==
    /\ mainPc = "defaults"
    /\ limitCPU' = IF limitCPU = <<>> THEN constDefaultLimitCPU ELSE limitCPU
    /\ mainPc' = "client"
    /\ UNCHANGED <<exitCode, calls, runVars, osArgs, args, env, uid, gid,
                   envLimitCPU, pod, panicAt>>

\* os.Getwd, BuildConfigFromFlags and NewForConfig succeed.
MainClientOk ==
    /\ mainPc = "client"
    /\ mainPc' = "generate"
    /\ UNCHANGED <<exitCode, calls, runVars, cfgVars>>

\* One of os.Getwd, BuildConfigFromFlags, NewForConfig fails: log.Fatalf.
MainClientFail ==
    /\ mainPc = "client"
    /\ Fatal
    /\ UNCHANGED <<calls, runVars, cfgVars>>

\* pod := generatePod(cwd, uid, gid, env, args)
MainGeneratePod ==
    /\ mainPc = "generate"
    /\ generatePodPanic(uid, gid, env, limitCPU) = "none"
    /\ pod' = generatePod(uid, gid, env, args, limitCPU)
    /\ mainPc' = "create"
    /\ UNCHANGED <<exitCode, calls, runVars, osArgs, args, env, uid, gid,
                   envLimitCPU, limitCPU, panicAt>>

\* generatePod panics.
MainGeneratePodPanic ==
    /\ mainPc = "generate"
    /\ generatePodPanic(uid, gid, env, limitCPU) # "none"
    /\ Panic(generatePodPanic(uid, gid, env, limitCPU))
    /\ UNCHANGED <<calls, runVars, osArgs, args, env, uid, gid, envLimitCPU,
                   limitCPU, pod>>

\* main from its first statement up to the outcome of the create call.
NextStart ==
    \/ MainRewrite
    \/ MainRewritePanic
    \/ MainSetDefaults
    \/ MainClientOk
    \/ MainClientFail
    \/ MainGeneratePod
    \/ MainGeneratePodPanic
    \/ MainCreateOk
    \/ MainCreateFail

StartSpec == InitStart /\ [][NextStart]_vars

\* ----------------------------------------------------------------- watcher

\* case <-ctx.Done(): return "context cancelled".
WatcherCtxDone ==
    /\ Alive
    /\ wPc = "select"
    /\ ctxDone
    /\ wErr' = "ctx"
    /\ wPc' = "send"
    /\ UNCHANGED <<mainPc, exitCode, calls, phase, stopCh, ctxDone, observed,
                   took, recvErr, logsReader, logs, logErr,
                   stopPhase, deleted, stopGets, cfgVars>>

\* case <-time.After(5 * time.Second): the get-status call is issued.
WatcherTick ==
    /\ Alive
    /\ wPc = "select"
    /\ Count("get") < MaxPolls
    /\ calls' = Append(calls, "get")
    /\ wPc' = "get"
    /\ UNCHANGED <<mainPc, exitCode, phase, stopCh, ctxDone, wErr, observed,
                   took, recvErr, logsReader, logs, logErr,
                   stopPhase, deleted, stopGets, cfgVars>>

WatcherGetErrRetries ==
    /\ Alive
    /\ wPc = "get"
    /\ observed' = Append(observed, "err")
    /\ wPc' = "select"
    /\ UNCHANGED <<mainPc, exitCode, calls, phase, stopCh, ctxDone, wErr,
                   took, recvErr, logsReader, logs, logErr,
                   stopPhase, deleted, stopGets, cfgVars>>

\* Pods(...).Get returns an error: waitForPodCompletion returns it.
WatcherGetErr ==
    /\ Alive
    /\ wPc = "get"
    /\ observed' = Append(observed, "err")
    /\ wErr' = "fetcherr"
    /\ wPc' = "send"
    /\ UNCHANGED <<mainPc, exitCode, calls, phase, stopCh, ctxDone, took,
                   recvErr, logsReader, logs, logErr,
                   stopPhase, deleted, stopGets, cfgVars>>

PhaseOutcomeSwapped(p) ==
    CASE p = "Failed"    -> "nil"
      [] p = "Succeeded" -> "failed"
      [] OTHER           -> "continue"

PhaseOutcomeFailedIgnored(p) ==
    CASE p = "Succeeded" -> "nil"
      [] OTHER           -> "continue"

PhaseOutcomeUnknownFails(p) ==
    CASE p = "Unknown"   -> "failed"
      [] p = "Failed"    -> "failed"
      [] p = "Succeeded" -> "nil"
      [] OTHER           -> "continue"

\* switch pod.Status.Phase: what the loop does with the phase it read.
PhaseOutcome(p) ==
    CASE p = "Pending"   -> "continue"
      [] p = "Running"   -> "continue"
      [] p = "Unknown"   -> "continue"
      [] p = "Failed"    -> "failed"
      [] p = "Succeeded" -> "nil"

\* Pods(...).Get returns the pod: the loop switches on its phase.
WatcherGetOk ==
    /\ Alive
    /\ wPc = "get"
    /\ phase \in Phases
    /\ observed' = Append(observed, phase)
    /\ IF PhaseOutcome(phase) = "continue"
       THEN /\ wPc' = "select"
            /\ wErr' = wErr
       ELSE /\ wPc' = "send"
            /\ wErr' = PhaseOutcome(phase)
    /\ UNCHANGED <<mainPc, exitCode, calls, phase, stopCh, ctxDone, took,
                   recvErr, logsReader, logs, logErr,
                   stopPhase, deleted, stopGets, cfgVars>>

\* ------------------------------------------------------------- environment

\* Phases the cluster may move a pod to (restart policy Never: Failed and
\* Succeeded are final).
NextPhases(p) ==
    CASE p = "Pending" -> {"Running", "Unknown", "Failed", "Succeeded"}
      [] p = "Running" -> {"Unknown", "Failed", "Succeeded"}
      [] p = "Unknown" -> {"Pending", "Running", "Failed", "Succeeded"}
      [] OTHER         -> {}

\* The cluster moves the pod to another phase.
PodTransition ==
    /\ Alive
    /\ phase \in Phases
    /\ \E q \in NextPhases(phase) : phase' = q
    /\ UNCHANGED <<mainPc, exitCode, calls, stopCh, ctxDone, wPc, wErr,
                   observed, took, recvErr, logsReader, logs, logErr,
                   stopPhase, deleted, stopGets, cfgVars>>

\* The operator's stop signal: the handler installed by
\* SetupSignalHandler closes stopCh.
Signal ==
    /\ Alive
    /\ mainPc \notin {"create", "setup"}
    /\ ~stopCh
    /\ stopCh' = TRUE
    /\ UNCHANGED <<mainPc, exitCode, calls, phase, ctxDone, wPc, wErr,
                   observed, took, recvErr, logsReader, logs, logErr,
                   stopPhase, deleted, stopGets, cfgVars>>

Next ==
    \/ MainCreateOk
    \/ MainCreateFail
    \/ MainSetup
    \/ MainEnterSelect
    \/ MainRecvWatcher
    \/ MainRecvStop
    \/ MainStreamOk
    \/ MainStreamFail
    \/ MainReadOk
    \/ MainReadFail
    \/ MainDeleteOk
    \/ MainDeleteFail
    \/ MainReturn
    \/ ProcessExit
    \/ WatcherCtxDone
    \/ WatcherTick
    \/ WatcherGetErr
    \/ WatcherGetOk
    \/ PodTransition
    \/ Signal

Spec == Init /\ [][Next]_vars

\* The steps of the main flow and of the watcher when every cluster call
\* returns without error.
MainStep ==
    \/ MainCreateOk
    \/ MainSetup
    \/ MainEnterSelect
    \/ MainRecvWatcher
    \/ MainRecvStop
    \/ MainStreamOk
    \/ MainReadOk
    \/ MainDeleteOk
    \/ MainReturn
    \/ ProcessExit

WatcherStep ==
    \/ WatcherCtxDone
    \/ WatcherTick
    \/ WatcherGetOk

NextNoError ==
    \/ MainStep
    \/ WatcherStep
    \/ PodTransition
    \/ Signal

\* The program with error-free cluster calls under the scheduling Go gives
\* it: a goroutine that can run does run (its timer fires, its call
\* returns).  Nothing obliges the pod to change phase or the operator to
\* send a signal.
FairSpec ==
    /\ Init
    /\ [][NextNoError]_vars
    /\ WF_vars(MainStep)
    /\ WF_vars(WatcherStep)

\* ------------------------------------------------------------- type check
TypeOK ==
    /\ mainPc \in {"rewrite", "defaults", "client", "generate", "create",
                   "setup", "waitfn", "select", "stream", "read", "delete",
                   "return", "returned", "exited"}
    /\ exitCode \in {-1, 0, 1, 2}
    /\ panicAt \in {"none", "rewriteArgs", "toCoreV1EnvVar", "strToi64",
                    "MustParse"}
    /\ Len(args) = Len(osArgs)
    /\ phase \in Phases \cup {"None"}
    /\ stopCh \in BOOLEAN
    /\ ctxDone \in BOOLEAN
    /\ wPc \in {"idle", "select", "get", "send", "done"}
    /\ wErr \in {"none", "nil", "failed", "fetcherr", "ctx"}
    /\ took \in {"none", "watcher", "stop"}
    /\ recvErr \in {"none", "nil", "failed", "fetcherr", "ctx"}
    /\ logErr \in {"none", "stream", "read"}
    /\ stopPhase \in Phases \cup {"None"}
    /\ deleted \in BOOLEAN
    /\ stopGets \in 0..MaxPolls
    /\ Count("get") <= MaxPolls

\* ---------------------------------------------------------------- helpers
Last(q) == q[Len(q)]

\* Every call a was issued before every call b.
Before(a, b) ==
    \A i \in DOMAIN calls : \A j \in DOMAIN calls :
        (calls[i] = a /\ calls[j] = b) => i < j

\* The create call returned a pod / returned an error.
Created == phase # "None"
CreateFailed == Count("create") > 0 /\ phase = "None"

\* waitForPodCompletion has returned.
WatcherEnded == wPc \in {"send", "done"}

\* main is past its select and past the log dump.
PastDump == mainPc \in {"delete", "return", "returned", "exited"}

\* The watcher issued a get-status call after the select of main took the
\* stop case.
PolledAfterStop == took = "stop" /\ Count("get") > stopGets

\* The delete call returned an error.
DeleteFailed == Count("delete") > 0 /\ ~deleted

\* ------------------------------------------------------------------ claims

C2_FailedAlwaysDumpsLogs ==
    (WatcherEnded /\ wErr = "failed" /\ logErr = "none" /\ PastDump
       /\ ~PolledAfterStop)
        => (Count("logs") = 1 /\ logs = logsReader /\ logs # NoLogs)

\* C2 (amended): a poll that observes Failed makes waitForPodCompletion
\* return a non-nil failure; when the select of main receives that outcome
\* (and not the stop signal) main issues exactly one log-fetch call, before
\* any delete call, and, the stream opening and reading without error, the
\* whole content of the stream is what the report prints before cleanup.
C2_FailedDumpsLogsWhenReceived ==
    /\ (WatcherEnded /\ observed # <<>> /\ Last(observed) = "Failed")
          => wErr = "failed"
    /\ Count("logs") <= 1
    /\ (recvErr = "failed" /\ mainPc \notin {"select", "stream"})
          => (Count("logs") = 1 /\ Before("logs", "delete"))
    /\ (recvErr = "failed" /\ mainPc = "stream")
          => (Count("logs") = 0 /\ Count("delete") = 0)
    /\ (recvErr = "failed" /\ logErr = "none" /\ PastDump)
          => (logs = logsReader /\ logs \in LogContents)

C2_Witness ==
    /\ recvErr = "failed"
    /\ mainPc = "delete"
    /\ Count("logs") = 1
    /\ Len(logs) = MaxLogLines
    /\ logs = logsReader

\* C3: when the polls observed Pending, Running, Succeeded in that order,
\* waitForPodCompletion returned nil, main received nil if it received the
\* outcome, and no log-fetch call is issued (with or without a stop signal).
C3_SucceededNoDiagnostics ==
    (WatcherEnded /\ observed = <<"Pending", "Running", "Succeeded">>)
        => /\ wErr = "nil"
           /\ Count("logs") = 0
           /\ logs = NoLogs
           /\ (took = "watcher" => (recvErr = "nil" /\ mainPc # "stream"))

C3_Witness ==
    /\ observed = <<"Pending", "Running", "Succeeded">>
    /\ ~stopCh
    /\ took = "watcher"
    /\ mainPc = "exited"
    /\ exitCode = 0
    /\ Count("logs") = 0

\* C4: when the select of main receives the stop signal while the pod is
\* Pending or Running, main leaves the wait at once (no terminal phase is
\* needed), issues no log-fetch call, and issues exactly one delete call.
C4_StopShortCircuits ==
    (took = "stop" /\ stopPhase \in {"Pending", "Running"})
        => /\ mainPc \in {"delete", "return", "returned", "exited"}
           /\ Count("logs") = 0
           /\ Count("delete") = (IF mainPc = "delete" THEN 0 ELSE 1)

C4_Witness ==
    /\ took = "stop"
    /\ stopPhase \in {"Pending", "Running"}
    /\ phase \in {"Pending", "Running"}
    /\ \A i \in DOMAIN observed : observed[i] \notin Terminal
    /\ mainPc = "exited"
    /\ Count("delete") = 1
    /\ Count("logs") = 0

\* C5 (as stated): a log-fetch call is issued only after a poll observed
\* phase Failed.
C5_LogsOnlyAfterFailedPhase ==
    Count("logs") > 0 => (observed # <<>> /\ Last(observed) = "Failed")

\* C5 (amended): a log-fetch call is issued only after main received a
\* non-nil outcome from the watcher, which is either a poll that observed
\* Failed or a get-status call that returned an error; it is never issued
\* for a Succeeded outcome, for a context cancellation, or after the select
\* took the stop signal.
C5_LogsOnlyAfterNonNilOutcome ==
    Count("logs") > 0
        => /\ took = "watcher"
           /\ recvErr \in {"failed", "fetcherr"}
           /\ observed # <<>>
           /\ Last(observed) \in {"Failed", "err"}

C5_Witness ==
    /\ Count("logs") = 1
    /\ recvErr = "fetcherr"
    /\ "Failed" \notin {observed[i] : i \in DOMAIN observed}

\* C6 (as stated): when the pod Failed and both the log fetch and the delete
\* succeeded, the process ends with a failure result, unlike the status 0 of
\* an invocation whose pod Succeeded.
C6_FailedPodFailureResult ==
    (mainPc = "exited" /\ recvErr = "failed" /\ logErr = "none" /\ deleted)
        => exitCode # 0

\* C7: at most one create call is ever issued, and when it returns an error
\* the process has ended with status 1 having issued no other cluster call
\* and never started the watcher.
C7_CreateFailureFatal ==
    /\ Count("create") <= 1
    /\ CreateFailed
          => /\ mainPc = "exited"
             /\ exitCode = 1
             /\ calls = <<"create">>
             /\ wPc = "idle"

C7_Witness ==
    /\ CreateFailed
    /\ mainPc = "exited"
    /\ exitCode = 1

\* C8: a get-status error is the last thing the watcher observes: the wait
\* has ended with that error and no further get-status call was issued.
C8_FetchErrorEndsWait ==
    \A i \in DOMAIN observed :
        observed[i] = "err"
            => /\ i = Len(observed)
               /\ WatcherEnded
               /\ wErr = "fetcherr"
               /\ Count("get") = Len(observed)

C8_Witness ==
    /\ Len(observed) >= 2
    /\ Last(observed) = "err"
    /\ wPc = "send"
    /\ mainPc = "select"

\* C9 (as stated): after a get-status error the watcher has not ended the
\* wait: it is waiting for the next tick or polling again.
C9_FetchErrorRetried ==
    (observed # <<>> /\ Last(observed) = "err") => ~WatcherEnded

\* C9 (amended): the watcher keeps polling exactly as long as every poll
\* returned a non-terminal phase: the wait has ended if and only if the last
\* poll observed Succeeded or Failed, or the last get-status call returned
\* an error (which is not retried), or the context was cancelled.
C9_WaitEndsOnTerminalOrError ==
    WatcherEnded
        <=> \/ (observed # <<>> /\ Last(observed) \in Terminal \cup {"err"})
            \/ wErr = "ctx"

C9_Witness ==
    /\ Len(observed) >= 2
    /\ observed[1] \notin Terminal \cup {"err"}
    /\ Last(observed) = "err"
    /\ wPc = "done"
    /\ recvErr = "fetcherr"

\* C10: when opening or reading the log stream returned an error the
\* process has ended with status 1 at once: nothing was printed as pod
\* logs and no delete call was issued.
C10_LogErrorFatal ==
    logErr # "none"
        => /\ mainPc = "exited"
           /\ exitCode = 1
           /\ logs = NoLogs
           /\ Count("delete") = 0
           /\ ~deleted

C10_Witness ==
    /\ logErr = "read"
    /\ mainPc = "exited"
    /\ Count("logs") = 1

\* C11: when the delete call returned an error the process has ended with
\* status 1 (not 0) after exactly one delete attempt.
C11_DeleteErrorFatal ==
    DeleteFailed
        => /\ mainPc = "exited"
           /\ exitCode = 1
           /\ Count("delete") = 1
           /\ Last(calls) = "delete"

C11_Witness ==
    /\ DeleteFailed
    /\ mainPc = "exited"
    /\ exitCode = 1
    /\ took = "watcher"

\* C12 (as stated): after the select of main took the stop signal, the
\* watcher issues no further get-status call.
C12_NoPollAfterStop ==
    ~PolledAfterStop

\* C17: the first cluster call is the only create call and nothing else is
\* issued unless it succeeded; a log-fetch call comes after the watcher
\* delivered its outcome and before the delete call; after the delete call
\* the main flow issues no cluster call (only the watcher's get-status calls
\* can follow it).
C17_CallOrder ==
    /\ calls # <<>> => calls[1] = "create"
    /\ Count("create") <= 1
    /\ Len(calls) > 1 => Created
    /\ Count("logs") > 0 => (took = "watcher" /\ wPc = "done")
    /\ Before("logs", "delete")
    /\ \A i \in DOMAIN calls : \A j \in DOMAIN calls :
          (calls[i] = "delete" /\ i < j) => calls[j] = "get"

C17_Witness ==
    /\ mainPc = "exited"
    /\ exitCode = 0
    /\ Count("get") >= 2
    /\ Count("logs") = 1
    /\ Last(calls) = "delete"

\* C18: waitForPodCompletion returns nil only after a poll observed
\* Succeeded, the failure only after a poll observed Failed, the fetch error
\* only after a get-status error, "context cancelled" only once ctx is
\* cancelled; and while every poll observed Pending, Running or Unknown and
\* no stop signal came, the watcher is still in its loop, main is still
\* waiting in the select and no delete call has been issued.
C18_OnlyTerminalEndsWait ==
    /\ WatcherEnded
          => \/ (wErr = "nil" /\ Last(observed) = "Succeeded")
             \/ (wErr = "failed" /\ Last(observed) = "Failed")
             \/ (wErr = "fetcherr" /\ Last(observed) = "err")
             \/ (wErr = "ctx" /\ ctxDone)
    /\ (/\ wPc # "idle"
        /\ ~stopCh
        /\ \A i \in DOMAIN observed :
              observed[i] \in {"Pending", "Running", "Unknown"})
          => /\ wPc \in {"select", "get"}
             /\ mainPc = "select"
             /\ Count("delete") = 0
             /\ Count("get") \in {Len(observed), Len(observed) + 1}

C18_Witness ==
    /\ Len(observed) = MaxPolls
    /\ \E i \in DOMAIN observed : observed[i] = "Unknown"
    /\ \A i \in DOMAIN observed :
          observed[i] \in {"Pending", "Running", "Unknown"}
    /\ ~stopCh
    /\ wPc = "select"
    /\ mainPc = "select"
    /\ Count("delete") = 0

\* C20: ctx is cancelled only once main has returned, after the delete
\* call succeeded; main never receives "context cancelled"; and after the
\* select took the stop signal the watcher goes on (in its loop, or blocked
\* on its send) for as long as main runs.
C20_WatcherNeverCancelled ==
    /\ ctxDone => (mainPc \in {"returned", "exited"} /\ deleted)
    /\ wErr = "ctx" => mainPc \in {"returned", "exited"}
    /\ recvErr # "ctx"
    /\ (took = "stop" /\ mainPc \in {"delete", "return"})
          => (wPc \in {"select", "get", "send"} /\ wErr # "ctx")

C20_Witness ==
    /\ took = "stop"
    /\ mainPc = "delete"
    /\ wPc = "get"
    /\ PolledAfterStop
    /\ ~ctxDone

\* C19: under FairSpec (fair scheduling, no cluster call fails), once the
\* pod exists and either the stop signal was delivered or the pod is in a
\* terminal phase that a poll can still read (a get-status call in flight,
\* or one of the MaxPolls calls left), the delete call is eventually issued
\* once and the process exits.
C19_EventuallyCleansUp ==
    (/\ Created
     /\ \/ stopCh
        \/ (phase \in Terminal /\ (Count("get") < MaxPolls \/ wPc = "get")))
        ~> (mainPc = "exited" /\ Count("delete") = 1)

C19_Witness ==
    /\ mainPc = "exited"
    /\ exitCode = 0
    /\ phase \in Terminal
    /\ ~stopCh
    /\ Count("delete") = 1

\* ------------------------------------------ claims about the invocation

Flags == UrlFlags \cup LogFlags

\* rewriteArgs has returned.
Rewritten == mainPc # "rewrite" /\ panicAt # "rewriteArgs"

\* Number of consecutive -loglevel / -loglevel_plex elements ending at i.
RECURSIVE LogRun(_, _)
LogRun(in, i) ==
    IF i = 0 \/ in[i] \notin LogFlags THEN 0 ELSE 1 + LogRun(in, i - 1)

\* Element i is the value of a verbosity flag the pass acted on, so the
\* pass has replaced it with "debug" before reading it.
Overwritten(in, i) == i > 1 /\ LogRun(in, i - 1) % 2 = 1

\* v names the loopback authority somewhere.
Contains(v, old) ==
    \E k \in 1..Len(v) : k + Len(old) - 1 <= Len(v)
                         /\ SubSeq(v, k, k + Len(old) - 1) = old

\* out is v with its first occurrence of old, and nothing else, replaced
\* by new.
FirstReplaced(v, old, new, out) ==
    \E k \in 1..Len(v) :
        /\ k + Len(old) - 1 <= Len(v)
        /\ SubSeq(v, k, k + Len(old) - 1) = old
        /\ \A h \in 1..(k - 1) : SubSeq(v, h, h + Len(old) - 1) # old
        /\ out = SubSeq(v, 1, k - 1) \o new \o SubSeq(v, k + Len(old), Len(v))

\* A base-10 integer: digits after an optional sign.
IsBase10Integer(s) ==
    \/ IsDigits(s)
    \/ (Len(s) > 1 /\ s[1] \in {"+", "-"} /\ IsDigits(Tail(s)))

\* The identity or the environment is malformed.
BadIdentityOrEnv ==
    \/ ~IsBase10Integer(uid)
    \/ ~IsBase10Integer(gid)
    \/ \E i \in DOMAIN env : \A k \in DOMAIN env[i] : env[i][k] # "="

\* The process has not reached its first cluster call and, if it has
\* ended, it ended in an error state.
FailsBeforeCluster ==
    /\ calls = <<>>
    /\ mainPc \in {"rewrite", "defaults", "client", "generate", "exited"}
    /\ mainPc = "exited" => exitCode # 0
    /\ ~pod.Built

\* C13 (as stated): with a PLEX_UID or PLEX_GID that is no base-10 integer,
\* an environment entry without '=', or a recognized flag as the last
\* element of the argument vector, the process never reaches a cluster call
\* and ends in an error state.
C13_ContractErrorsFatal ==
    (BadIdentityOrEnv \/ osArgs[Len(osArgs)] \in Flags)
        => FailsBeforeCluster

\* C13 (amended): the same, for a recognized flag in last position that the
\* pass still reads as a flag, i.e. one that is not the value of a
\* verbosity flag the pass acted on just before (which turns it into
\* "debug"); such a flag makes rewriteArgs panic, it is never skipped.
C13_ContractErrorsFatalUnlessOverwritten ==
    /\ BadIdentityOrEnv => FailsBeforeCluster
    /\ (osArgs[Len(osArgs)] \in Flags /\ ~Overwritten(osArgs, Len(osArgs)))
          => /\ FailsBeforeCluster
             /\ mainPc = "rewrite" \/ panicAt = "rewriteArgs"

C13_Witness ==
    /\ Len(osArgs) = MaxArgs
    /\ osArgs[Len(osArgs)] \in Flags
    /\ panicAt = "rewriteArgs"
    /\ mainPc = "exited"
    /\ exitCode = 2
    /\ calls = <<>>

\* The elements that follow no recognized flag are as they were, and the
\* vector has kept its length.
RestUnchanged ==
    /\ Len(args) = Len(osArgs)
    /\ \A j \in DOMAIN osArgs :
          (j = 1 \/ osArgs[j - 1] \notin Flags) => args[j] = osArgs[j]

\* C14 (as stated): once rewriteArgs has returned, the value after every
\* callback-URL flag that contains the loopback authority has exactly its
\* first occurrence replaced by the internal address, and the rest of the
\* vector and its length are unchanged.
C14_UrlRewritten ==
    Rewritten
        => /\ RestUnchanged
           /\ \A i \in 1..(Len(osArgs) - 1) :
                 (osArgs[i] \in UrlFlags /\ Contains(osArgs[i + 1], Loopback))
                    => FirstReplaced(osArgs[i + 1], Loopback,
                                     pmsInternalAddress, args[i + 1])

\* C14 (amended): the same for every callback-URL flag that the pass reads
\* as a flag, i.e. that is not the value of a verbosity flag the pass acted
\* on just before; a callback-URL flag that is such a value has become
\* "debug" and the value after it is left as it was.
C14_UrlRewrittenUnlessOverwritten ==
    Rewritten
        => /\ RestUnchanged
           /\ \A i \in 1..(Len(osArgs) - 1) :
                 (osArgs[i] \in UrlFlags /\ Contains(osArgs[i + 1], Loopback))
                    => IF Overwritten(osArgs, i)
                       THEN args[i] = Debug /\ args[i + 1] = osArgs[i + 1]
                       ELSE FirstReplaced(osArgs[i + 1], Loopback,
                                          pmsInternalAddress, args[i + 1])

C14_Witness ==
    /\ Rewritten
    /\ Len(osArgs) = MaxArgs
    /\ osArgs[2] \in UrlFlags
    /\ osArgs[3] = Loopback \o Loopback
    /\ args[3] = pmsInternalAddress \o Loopback
    /\ args[1] = osArgs[1]

\* C15 (as stated): once rewriteArgs has returned, the element after every
\* -loglevel or -loglevel_plex of the argument vector is "debug".
C15_LogLevelForced ==
    Rewritten
        => \A i \in 1..(Len(osArgs) - 1) :
              osArgs[i] \in LogFlags => args[i + 1] = Debug

\* C15 (amended): the element after every -loglevel or -loglevel_plex that
\* the pass reads as a flag (one that is not itself the value of a verbosity
\* flag the pass acted on just before) is "debug", whatever it was, a
\* recognized flag included; and every verbosity flag left in the rewritten
\* vector is followed by "debug".
C15_LogLevelForcedUnlessOverwritten ==
    Rewritten
        => /\ \A i \in 1..(Len(osArgs) - 1) :
                 (osArgs[i] \in LogFlags /\ ~Overwritten(osArgs, i))
                    => args[i + 1] = Debug
           /\ \A i \in 1..(Len(args) - 1) :
                 args[i] \in LogFlags => args[i + 1] = Debug

C15_Witness ==
    /\ Rewritten
    /\ Len(osArgs) = MaxArgs
    /\ osArgs[1] \in LogFlags
    /\ osArgs[2] \in UrlFlags
    /\ osArgs[3] = Loopback \o <<"/x">>
    /\ args[2] = Debug
    /\ args[3] = osArgs[3]

\* C16: from setDefaults on, limitCPU is "100m" when LIMIT_CPU was empty
\* and the configured value otherwise; the pod that is built carries that
\* quantity (100 millicores by default) as its CPU limit; an empty
\* LIMIT_CPU never makes resource.MustParse panic.
C16_CpuLimitDefault ==
    /\ mainPc \in {"client", "generate", "create", "setup"}
          => limitCPU = (IF envLimitCPU = <<>> THEN constDefaultLimitCPU
                         ELSE envLimitCPU)
    /\ pod.Built
          => pod.LimitCPU = (IF envLimitCPU = <<>> THEN 100
                             ELSE ParseQuantity(envLimitCPU).milli)
    /\ panicAt = "MustParse" => envLimitCPU # <<>>

C16_Witness ==
    /\ pod.Built
    /\ envLimitCPU = <<>>
    /\ pod.LimitCPU = 100
    /\ mainPc = "create"
====
